---- MODULE Spec2Model ----
(***************************************************************************)
(* A model of camera-bot: the countdown/trigger state machine              *)
(* (auto_trigger.rs), the coordinator and its snapshot sequence (main.rs), *)
(* the capture thread (capture_thread.rs), the display thread              *)
(* (ui_thread.rs) and the remote trigger endpoint (web.rs), connected by   *)
(* tokio channels.                                                         *)
(*                                                                         *)
(* Option<T> values are sequences of length at most one: None is <<>> and  *)
(* Some(x) is <<x>>.  Durations are whole ticks.                           *)
(***************************************************************************)
EXTENDS Integers, Sequences, FiniteSets, TLC

\* ------------------------------------------------------------ bounds
\* The system (Spec): countdown overlays, and ticks of --timeout.
MaxDepth == 2
MaxTimeout == 1
\* The machine on its own (SpecMachine).
MachineMaxDepth == 3
MachineMaxTimeout == 3
MachineMaxBetween == 2
\* Saves the system's repository does before its counter is capped.
MaxSaves == 1
\* The repository on its own (SpecRepo): counter values and clock readings.
RepoMaxCounter == 3
RepoMaxNow == 1
\* The alpha image on its own (SpecAlpha): the longest side of an image.
MaxSide == 2
\* The machine and whoever holds its command sender (SpecCommands).
CommandsMaxDepth == 2
CommandsMaxTimeout == 2
CommandsMaxBetween == 2

\* One tick is one second: the defaults of --timeout-between and --freeze.
DefaultTimeoutBetween == 1
DefaultFreeze == 3

None == <<>>
Some(x) == <<x>>

VARIABLES
    params,          \* TriggerParams {timeout: Option<Duration>, timeout_between}
    countdown,       \* CommonData.countdown = countdown_blend_images.len()
    snapshot_blend_image, \* Option<AlphaImage> read from the mugshot file
    freeze,          \* Args.freeze
    smState,         \* the state machine's task: its State, or how it ended
    count,           \* Countdown.count
    smTimer,         \* the pending sleep() of the machine's select!, ticks left
    trigger_control, \* mpsc::channel(1) of auto_trigger::ControlMsg
    trigger_event,   \* broadcast::channel(1) of auto_trigger::EventMsg
    ui_event,        \* broadcast::channel(1) of ui_thread::EventMsg
    ui_control,      \* mpsc::channel(1) of ui_thread::ControlMsg
    capture_control, \* mpsc::channel(1) of capture_thread::Command
    snapshot_reply,  \* the oneshot channel of the pending Command::Snapshot
    exit_sent,       \* exit_sender.send(true) has happened
    coordPc,         \* where coordinate_events / save_snapshot stands
    pendingBlend,    \* the overlay of the Blend that coordinate_events is sending
    coordTimer,      \* the pending sleep(freeze_duration), ticks left
    mainPc,          \* where main stands around coordinate_events
    capState,        \* the capture thread (frame_grabber)
    uiState,         \* the display thread (ui_event_loop)
    video_state,     \* ui_event_loop's video_state
    blending_image,  \* ui_event_loop's blending_image
    webState,        \* the task of web::spawn
    cycle,           \* (history) events the machine emitted in its current cycle
    clock,           \* (history) a stopwatch, when armed: ticks since the machine
                     \* started, while it has consumed no command and its first
                     \* cycle has not ended
    stamps,          \* (history) <<event, clock>> of the emissions in that window
    cause,           \* (history) what started the running snapshot sequence
    seqLog,          \* (history) the side effects of the running snapshot sequence
    repo,            \* SnapshotRepo {counter, path, name}
    disk,            \* the file system under repo.path: files there, directories
    saved,           \* (history) what the last save_frame call did
    rgba,            \* an overlay file as imread gives it: depth, size, a pixel
    alpha_image,     \* the AlphaImage made from it: Option of {image_f, beta_f}
    frame_f,         \* ui_event_loop's frame_f: size, a pixel
    tmp_2_f          \* ui_event_loop's tmp_2_f, the blended frame: size, a pixel

cfgVars == <<params, countdown, snapshot_blend_image, freeze>>
smVars == <<smState, count, smTimer, cycle, clock, stamps>>
coordVars == <<coordPc, pendingBlend, coordTimer, cause, seqLog>>
capVars == <<capState, capture_control, snapshot_reply>>
uiVars == <<uiState, ui_control, video_state, blending_image>>
repoVars == <<repo, disk, saved>>
alphaVars == <<rgba, alpha_image, frame_f, tmp_2_f>>
vars == <<cfgVars, smVars, coordVars, capVars, uiVars, trigger_control,
          trigger_event, ui_event, exit_sent, mainPc, webState, repoVars,
          alphaVars>>

\* ------------------------------------------------------------ messages
\* auto_trigger::EventMsg; "from" records which sender published a Trigger.
EvCountdown(n) == [ev |-> "Countdown", n |-> n, from |-> "sm"]
EvTrigger(who) == [ev |-> "Trigger", n |-> 0, from |-> who]

\* ui_thread::EventMsg
KEY_ESCAPE == 27
KEY_ENTER == 13
KeyPressed(key) == [ev |-> "KeyPressed", key |-> key]
WindowClosed == [ev |-> "WindowClosed", key |-> 0]
\* What highgui::wait_key(20) returns: -1 on timeout, else the key's code.
Keys == {-1, KEY_ENTER, KEY_ESCAPE, 32}

\* ui_thread::ControlMsg; an overlay is named by what it was loaded from.
CountdownOverlay(i) == <<"countdown", i>>
SnapshotOverlay == <<"mugshot", 0>>
Blend(img) == [cmd |-> "Blend", img |-> img]
Freeze == [cmd |-> "Freeze", img |-> None]
Live == [cmd |-> "Live", img |-> None]

\* ------------------------------------------------------------ channels
\* tokio broadcast::channel(1) as seen by its single receiver: the one value the
\* channel retains and the receiver has not seen. A send overwrites it. (The
\* overrun receiver's next recv is Err(Lagged), on which both select! loops go
\* round without effect and receive the retained value next: that idle
\* iteration is folded into the receive.)
EmptyBroadcast == <<>>

\* Faulty variant of BroadcastSend: the channel queues every value sent (C19
\* must reject it).
BroadcastSendQueues(ch, m) == Append(ch, m)

BroadcastSend(ch, m) == <<m>>

\* Receiver::recv has a value to return.
BroadcastReady(ch) == ch # <<>>

\* mpsc::channel(1). Sender::send completes when the receiver is gone (Err) or
\* when a slot is free; otherwise it waits.
MpscCapacity == 1
MpscSendReady(ch, rxAlive) == ~rxAlive \/ Len(ch) < MpscCapacity
MpscSend(ch, rxAlive, m) == IF rxAlive THEN Append(ch, m) ELSE ch

\* The Sender was dropped: Closed stands behind what is still queued, and once
\* it is at the head Receiver::recv returns None, every time it is called.
Closed == "Closed"
MpscClosed(ch) == ch # <<>> /\ ch[Len(ch)] = Closed
MpscRecv(ch) == IF Head(ch) = Closed THEN ch ELSE Tail(ch)

\* ------------------------------------------------------------ who is alive
\* main has neither returned nor panicked: the process runs.
ProcessAlive == mainPc \notin {"exitedOk", "exitedErr", "panicked"}

\* coordinate_events owns both event receivers; they drop when it returns.
CoordinatorSubscribed == mainPc = "coordinate"

\* The machine owns control_receiver until auto_trigger returns.
MachineRunning == smState \in {"Spawned", "Waiting", "Countdown", "Stopped"}

CaptureRunning == capState = "running"
UiRunning == uiState = "running"

\* ------------------------------------------------------------ Init
Durations(max) == 1..max

\* No overlay file is looked at: the alpha image variables at rest.
AlphaIdle ==
    /\ rgba = [depth |-> 8, size |-> <<1, 1>>, rgb |-> 0, a |-> 0]
    /\ alpha_image = None
    /\ frame_f = [size |-> <<1, 1>>, v |-> 0]
    /\ tmp_2_f = None

\* The state when main has spawned every task and calls coordinate_events.
Started ==
    /\ smState = "Spawned"
    /\ count = 0
    /\ smTimer = None
    /\ trigger_control = <<>>
    /\ trigger_event = EmptyBroadcast
    /\ ui_event = EmptyBroadcast
    /\ ui_control = <<>>
    /\ capture_control = <<>>
    /\ snapshot_reply = "none"
    /\ exit_sent = FALSE
    /\ coordPc = "select"
    /\ pendingBlend = None
    /\ coordTimer = None
    /\ mainPc = "coordinate"
    /\ capState = "running"
    /\ uiState = "running"
    /\ video_state = "Live"
    /\ blending_image = None
    /\ webState = "serving"
    /\ cycle = <<>>
    /\ stamps = <<>>
    /\ cause = "none"
    /\ seqLog = <<>>
    /\ saved = [status |-> "none", file |-> None]

\* Args as clap parses them (a duration is > 0), the overlays as read.
Init ==
    /\ params \in [timeout : {None} \cup {Some(d) : d \in Durations(MaxTimeout)},
                   timeout_between : {DefaultTimeoutBetween}]
    /\ countdown \in 1..MaxDepth
    /\ snapshot_blend_image \in {None, Some(SnapshotOverlay)}
    /\ freeze = DefaultFreeze
    /\ clock = None
    /\ repo = [counter |-> 0, path |-> "nested",
               name |-> [time |-> FALSE, counter |-> TRUE]]
    /\ disk = [files |-> {}, dirs |-> "all"]
    /\ AlphaIdle
    /\ Started

\* ------------------------------------------------------------ state machine
\* (auto_trigger.rs)

\* Everything the machine's steps leave alone.
NotMachine ==
    UNCHANGED <<alphaVars, repoVars, cfgVars, coordVars, capVars, uiVars, ui_event,
                exit_sent, mainPc, webState>>

\* exit_receiver.recv() is ready.
ExitReady == exit_sent

\* The measuring window of clock/stamps closes.
WindowOff == clock' = None /\ stamps' = <<>>

Stamp(e) == IF clock # None THEN Append(stamps, <<e, clock[1]>>) ELSE stamps

\* loop { match state.next_state().await { Ok(None) => break Ok(()) ..: the
\* select! saw the exit broadcast.
BreakOk ==
    /\ smState' = "ExitOk"
    /\ count' = 0
    /\ smTimer' = None
    /\ WindowOff
    /\ trigger_control' = <<>>
    /\ UNCHANGED <<cycle, trigger_event>>

\* Faulty variant of BreakErr: the send error is swallowed and the machine goes
\* on in Waiting (C10 must reject it).
BreakErrSwallowed ==
    /\ smState' = "Waiting"
    /\ count' = 0
    /\ smTimer' = params.timeout
    /\ WindowOff
    /\ UNCHANGED <<cycle, trigger_event, trigger_control>>

\* event_sender.send(..)? failed: Err(e) => break Err(e).
BreakErr ==
    /\ smState' = "ExitErr"
    /\ count' = 0
    /\ smTimer' = None
    /\ WindowOff
    /\ trigger_control' = <<>>
    /\ UNCHANGED <<cycle, trigger_event>>

\* A state whose select! consumed a Stop: Stopped { data }.
ToStopped ==
    /\ smState' = "Stopped"
    /\ count' = 0
    /\ smTimer' = None
    /\ WindowOff
    /\ UNCHANGED <<cycle, trigger_event>>

\* Waiting::next_state starts: its select! arms sleep(params.timeout.unwrap()).
EnterWaiting ==
    /\ smState' = "Waiting"
    /\ count' = 0
    /\ smTimer' = params.timeout

\* Faulty variant of EnterCountdown: the step timer is armed with the waiting
\* timeout (C7 must reject it).
EnterCountdownArmsTimeout(n, sofar) ==
    IF CoordinatorSubscribed
    THEN /\ trigger_event' = BroadcastSend(trigger_event, EvCountdown(n))
         /\ smState' = "Countdown"
         /\ count' = n
         /\ smTimer' = params.timeout
         /\ cycle' = Append(sofar, EvCountdown(n))
         /\ stamps' = Stamp(EvCountdown(n))
         /\ UNCHANGED <<clock, trigger_control>>
    ELSE BreakErr

\* Countdown::next_state starts with count n: it publishes Countdown(n), which
\* fails when the channel has no receiver, and arms sleep(timeout_between).
EnterCountdown(n, sofar) ==
    IF CoordinatorSubscribed
    THEN /\ trigger_event' = BroadcastSend(trigger_event, EvCountdown(n))
         /\ smState' = "Countdown"
         /\ count' = n
         /\ smTimer' = Some(params.timeout_between)
         /\ cycle' = Append(sofar, EvCountdown(n))
         /\ stamps' = Stamp(EvCountdown(n))
         /\ UNCHANGED <<clock, trigger_control>>
    ELSE BreakErr

\* Trigger::next_state: it publishes Trigger and hands over to Waiting.
EnterTrigger ==
    IF CoordinatorSubscribed
    THEN /\ trigger_event' = BroadcastSend(trigger_event, EvTrigger("sm"))
         /\ EnterWaiting
         /\ cycle' = Append(cycle, EvTrigger("sm"))
         /\ stamps' = Stamp(EvTrigger("sm"))
         /\ clock' = None
         /\ UNCHANGED trigger_control
    ELSE BreakErr

\* Faulty variant of AutoTriggerStart: the early return is missing (C8 must
\* reject it).
AutoTriggerStartNoEarlyReturn ==
    /\ ProcessAlive
    /\ smState = "Spawned"
    /\ EnterWaiting
    /\ clock' = IF clock = None THEN None ELSE Some(0)
    /\ UNCHANGED <<trigger_control, cycle, stamps, trigger_event>>
    /\ NotMachine

\* auto_trigger up to its loop: with no timeout configured it returns at once.
AutoTriggerStart ==
    /\ ProcessAlive
    /\ smState = "Spawned"
    /\ IF params.timeout = None
       THEN /\ smState' = "ExitOk"
            /\ trigger_control' = <<>>
            /\ clock' = None
            /\ UNCHANGED <<count, smTimer>>
       ELSE /\ EnterWaiting
            /\ clock' = IF clock = None THEN None ELSE Some(0)
            /\ UNCHANGED trigger_control
    /\ UNCHANGED <<cycle, stamps, trigger_event>>
    /\ NotMachine

\* Faulty variant of WaitingExit: Waiting's select! has no exit branch (C9 must
\* reject it).
WaitingExitMissing ==
    /\ FALSE
    /\ UNCHANGED vars

WaitingExit ==
    /\ ProcessAlive
    /\ smState = "Waiting"
    /\ ExitReady
    /\ BreakOk
    /\ NotMachine

WaitingControl ==
    /\ ProcessAlive
    /\ smState = "Waiting"
    /\ trigger_control # <<>>
    /\ trigger_control' = MpscRecv(trigger_control)
    /\ IF Head(trigger_control) = "Stop"
       THEN ToStopped
       ELSE \* Run | None: continue, and the next select! arms a new sleep
            /\ EnterWaiting
            /\ WindowOff
            /\ UNCHANGED <<cycle, trigger_event>>
    /\ NotMachine

WaitingTimeout ==
    /\ ProcessAlive
    /\ smState = "Waiting"
    /\ smTimer = Some(0)
    /\ EnterCountdown(countdown, <<>>)
    /\ NotMachine

CountdownExit ==
    /\ ProcessAlive
    /\ smState = "Countdown"
    /\ ExitReady
    /\ BreakOk
    /\ NotMachine

\* Faulty variant of CountdownControl: a Stop is consumed like a Run (C3 must
\* reject it).
CountdownControlIgnoresStop ==
    /\ ProcessAlive
    /\ smState = "Countdown"
    /\ trigger_control # <<>>
    /\ trigger_control' = Tail(trigger_control)
    /\ smTimer' = Some(params.timeout_between)
    /\ WindowOff
    /\ UNCHANGED <<smState, count, cycle, trigger_event>>
    /\ NotMachine

CountdownControl ==
    /\ ProcessAlive
    /\ smState = "Countdown"
    /\ trigger_control # <<>>
    /\ trigger_control' = MpscRecv(trigger_control)
    /\ IF Head(trigger_control) = "Stop"
       THEN ToStopped
       ELSE \* Run | None: continue, and the next select! arms a new sleep
            /\ smTimer' = Some(params.timeout_between)
            /\ WindowOff
            /\ UNCHANGED <<smState, count, cycle, trigger_event>>
    /\ NotMachine

\* Faulty variant of CountdownTimeout: the countdown ends one step early (C1
\* must reject it).
CountdownTimeoutEndsEarly ==
    /\ ProcessAlive
    /\ smState = "Countdown"
    /\ smTimer = Some(0)
    /\ IF count - 1 > 1
       THEN EnterCountdown(count - 1, cycle)
       ELSE EnterTrigger
    /\ NotMachine

CountdownTimeout ==
    /\ ProcessAlive
    /\ smState = "Countdown"
    /\ smTimer = Some(0)
    /\ IF count - 1 > 0
       THEN EnterCountdown(count - 1, cycle)
       ELSE EnterTrigger
    /\ NotMachine

StoppedExit ==
    /\ ProcessAlive
    /\ smState = "Stopped"
    /\ ExitReady
    /\ BreakOk
    /\ NotMachine

\* Faulty variant of StoppedControl: a Run resumes with the timeout counted as
\* already elapsed (C18 must reject it).
StoppedControlResumesElapsed ==
    /\ ProcessAlive
    /\ smState = "Stopped"
    /\ trigger_control # <<>>
    /\ trigger_control' = MpscRecv(trigger_control)
    /\ IF Head(trigger_control) = "Run"
       THEN /\ smState' = "Waiting"
            /\ count' = 0
            /\ smTimer' = Some(0)
            /\ cycle' = <<>>
            /\ UNCHANGED <<clock, stamps, trigger_event>>
       ELSE UNCHANGED <<smVars, trigger_event>>
    /\ NotMachine

StoppedControl ==
    /\ ProcessAlive
    /\ smState = "Stopped"
    /\ trigger_control # <<>>
    /\ trigger_control' = MpscRecv(trigger_control)
    /\ IF Head(trigger_control) = "Run"
       THEN /\ EnterWaiting
            /\ cycle' = <<>>
            /\ UNCHANGED <<clock, stamps, trigger_event>>
       ELSE \* Stop | None: continue
            UNCHANGED <<smVars, trigger_event>>
    /\ NotMachine

Machine ==
    \/ AutoTriggerStart
    \/ WaitingExit \/ WaitingControl \/ WaitingTimeout
    \/ CountdownExit \/ CountdownControl \/ CountdownTimeout
    \/ StoppedExit \/ StoppedControl

\* ------------------------------------------------------------ snapshot repo
\* (snapshot_repo.rs)

\* A name template, by what it contains: chrono format specifiers, $COUNTER$.
Templates == [time : BOOLEAN, counter : BOOLEAN]

\* repo.path, by what Path::parent gives: a directory ("out/captures"), the
\* empty path ("captures"), or None ("/").
Paths == {"nested", "bare", "root"}

\* Which directories exist: neither repo.path nor its parent, the parent only,
\* or both.
Dirs == {"none", "parent", "all"}

\* chrono's format(&self.name).to_string(): the specifiers become the time; a
\* text without specifiers is unchanged.
ChronoFormat(name, now) == IF name.time THEN Some(now) ELSE None

\* .replace("$COUNTER$", &self.counter.to_string())
ReplaceCounter(name, c) == IF name.counter THEN Some(c) ELSE None

\* A file name under repo.path: what stands in the place of the template's
\* time specifiers (None: the template's own text) and of its $COUNTER$.
\* get_filename's first candidate is made from the formatted template,
FirstCandidate(r, now) ==
    [time |-> ChronoFormat(r.name, now),
     counter |-> ReplaceCounter(r.name, r.counter)]

\* and the candidates of its loop are made from self.name itself.
NextCandidate(r, c) ==
    [time |-> None, counter |-> ReplaceCounter(r.name, c)]

\* while filename.exists() { self.counter += 1; .. }, entered with counter c
RECURSIVE ProbeFrom(_, _, _)
ProbeFrom(r, files, c) ==
    IF NextCandidate(r, c) \notin files THEN c ELSE ProbeFrom(r, files, c + 1)

\* The loop never finds a free name: its candidate does not depend on the
\* counter and exists.
GetFilenameHangs(r, files, now) ==
    /\ FirstCandidate(r, now) \in files
    /\ ~r.name.counter
    /\ NextCandidate(r, r.counter) \in files

\* get_filename: the name found and the counter it leaves.
GetFilename(r, files, now) ==
    IF FirstCandidate(r, now) \notin files
    THEN [counter |-> r.counter, filename |-> FirstCandidate(r, now)]
    ELSE LET c == ProbeFrom(r, files, r.counter + 1)
         IN  [counter |-> c, filename |-> NextCandidate(r, c)]

\* What the environment does to one save_frame call: create_dir_all succeeds
\* or not, imwrite returns Ok(true), Ok(false) or Err.
IoOutcomes == [mkdir : BOOLEAN, write : {"true", "false", "err"}]

\* save_frame: how it returns ("ok", "err", or "panic" for the unwrap of
\* parent()), the repo and the disk it leaves, the file it wrote.
SaveFrame(r, d, now, io) ==
    LET g == GetFilename(r, d.files, now)
        probed == [r EXCEPT !.counter = g.counter]
        creates == r.path = "nested" /\ d.dirs = "none"
        made == [d EXCEPT !.dirs = IF creates THEN "parent" ELSE d.dirs]
        written == made.dirs = "all" /\ io.write = "true"
    IN  IF r.path = "root"
        THEN [status |-> "panic", repo |-> probed, disk |-> d, file |-> None]
        ELSE IF creates /\ ~io.mkdir
        THEN [status |-> "err", repo |-> probed, disk |-> d, file |-> None]
        ELSE IF io.write = "err"
        THEN [status |-> "err", repo |-> probed, disk |-> made, file |-> None]
        ELSE [status |-> "ok",
              repo |-> [probed EXCEPT !.counter = g.counter + 1],
              disk |-> IF written
                       THEN [made EXCEPT !.files = @ \cup {g.filename}]
                       ELSE made,
              file |-> IF written THEN Some(g.filename) ELSE None]

\* One call of repo.save_frame with the given clock reading and environment.
SaveFrameCall(now, io) ==
    /\ ~GetFilenameHangs(repo, disk.files, now)
    /\ LET res == SaveFrame(repo, disk, now, io) IN
       /\ repo' = res.repo
       /\ disk' = res.disk
       /\ saved' = [status |-> res.status, file |-> res.file]

\* ------------------------------------------------------------ alpha image
\* (alpha_image.rs, and the blend of ui_thread.rs. An image is its size
\* <<cols, rows>> and the value of one pixel: every operation here treats all
\* pixels and the three colour channels alike. A float plane holds its value
\* in 255ths, v255 = 255 * value, so that the arithmetic stays exact.)

\* Bits per channel of what imread(.., IMREAD_UNCHANGED) returns for a PNG:
\* CV_8U or CV_16U.
Depths == {8, 16}
ChannelMax(depth) == 2^depth - 1

\* alpha.convert_to(&mut alpha_f32, CV_32F, 1. / 255., 0.)
AlphaDivisor == 255

Sizes == (0..MaxSide) \X (0..MaxSide)
SizeEmpty(size) == size[1] = 0 \/ size[2] = 0

\* Pixel values tried: of a colour channel, of the alpha channel.
ColourSamples == {0, 100, 255}
AlphaSamples(depth) == {0, 128, ChannelMax(depth)}

\* prep_alpha_blend: alpha_f32 = a / 255; rgb_f32_scaled = rgb * alpha_f32;
\* alpha_f32_inv = 1 - alpha_f32; AlphaImage::new stores them as image_f, beta_f.
PrepAlphaBlend(src) ==
    [image_f |-> [size |-> src.size, v255 |-> src.rgb * src.a],
     beta_f |-> [size |-> src.size, v255 |-> AlphaDivisor - src.a]]

\* Faulty variant of Resize: only the colour plane is resized (C15 must reject
\* it).
ResizeImagePlaneOnly(img, size) ==
    IF img.image_f.size # size
    THEN [image_f |-> [img.image_f EXCEPT !.size = size],
          beta_f |-> img.beta_f]
    ELSE img

\* AlphaImage::resize, for a size imgproc::resize accepts (a plane of equal
\* pixels stays one under interpolation).
Resize(img, size) ==
    IF img.image_f.size # size
    THEN [image_f |-> [img.image_f EXCEPT !.size = size],
          beta_f |-> [img.beta_f EXCEPT !.size = size]]
    ELSE img

\* imgproc::resize(..).unwrap() panics: the target size is empty.
ResizePanics(img, size) == img.image_f.size # size /\ SizeEmpty(size)

\* ui_event_loop: multiply(&frame_f, beta(), &mut tmp_1_f), then
\* add(&tmp_1_f, rgb(), &mut tmp_2_f); frame_f holds whole values.
UiBlend(frame, img) ==
    [size |-> frame.size,
     v255 |-> frame.v * img.beta_f.v255 + img.image_f.v255]

\* core::multiply and core::add return Err on operands of different sizes.
UiBlendFails(frame, img) ==
    frame.size # img.beta_f.size \/ frame.size # img.image_f.size

NotAlpha ==
    UNCHANGED <<repoVars, cfgVars, smVars, coordVars, capVars, ui_control,
                video_state, blending_image, trigger_control, trigger_event,
                ui_event, exit_sent, mainPc, webState>>

\* AlphaImage::new(rgba)
AlphaImageNew ==
    /\ UiRunning
    /\ alpha_image = None
    /\ alpha_image' = Some(PrepAlphaBlend(rgba))
    /\ UNCHANGED <<rgba, frame_f, tmp_2_f, uiState>>
    /\ NotAlpha

\* img.resize(size), called by the display thread
AlphaImageResize ==
    /\ UiRunning
    /\ alpha_image # None
    /\ \E size \in Sizes :
          IF ResizePanics(alpha_image[1], size)
          THEN uiState' = "failed" /\ UNCHANGED alpha_image
          ELSE /\ alpha_image' = Some(Resize(alpha_image[1], size))
               /\ UNCHANGED uiState
    /\ UNCHANGED <<rgba, frame_f, tmp_2_f>>
    /\ NotAlpha

\* if let Some(ref blending_image) = blending_image { multiply; add; .. }
UiBlendFrame ==
    /\ UiRunning
    /\ alpha_image # None
    /\ IF UiBlendFails(frame_f, alpha_image[1])
       THEN uiState' = "failed" /\ UNCHANGED tmp_2_f
       ELSE /\ tmp_2_f' = Some(UiBlend(frame_f, alpha_image[1]))
            /\ UNCHANGED uiState
    /\ UNCHANGED <<rgba, alpha_image, frame_f>>
    /\ NotAlpha

\* ------------------------------------------------------------ coordinator
\* (main.rs: coordinate_events, save_snapshot)

NotCoordinator ==
    UNCHANGED <<alphaVars, cfgVars, smVars, capState, uiState, video_state,
                blending_image, exit_sent, webState>>

\* Faulty variant of CountdownBlendImagesGet: the index is off by one (C11 must
\* reject it).
CountdownBlendImagesGetNext(i) ==
    IF i + 1 \in 0..(countdown - 1) THEN Some(CountdownOverlay(i + 1)) ELSE None

\* countdown_blend_images.get(i).cloned()
CountdownBlendImagesGet(i) ==
    IF i \in 0..(countdown - 1) THEN Some(CountdownOverlay(i)) ELSE None

\* Faulty variant of SaveSnapshotCall: the ENTER key skips the Stop (C5 must
\* reject it).
SaveSnapshotCallEnterSkipsStop(why) ==
    /\ coordPc' = IF why = "enter" THEN "sendSnapshot" ELSE "sendStop"
    /\ cause' = why
    /\ seqLog' = <<>>
    /\ UNCHANGED <<pendingBlend, coordTimer, mainPc>>

\* save_snapshot is called: nothing of the sequence has happened yet.
SaveSnapshotCall(why) ==
    /\ coordPc' = "sendStop"
    /\ cause' = why
    /\ seqLog' = <<>>
    /\ UNCHANGED <<pendingBlend, coordTimer, mainPc>>

\* `return` out of coordinate_events: both event receivers drop, and with them
\* what the channels retained; main goes on to broadcast the exit.
CoordinateEventsReturn ==
    /\ coordPc' = "returned"
    /\ mainPc' = "sendExit"
    /\ trigger_event' = EmptyBroadcast
    /\ UNCHANGED <<pendingBlend, coordTimer, cause, seqLog>>

\* An unwrap()/expect() in save_snapshot panics main's task.
MainPanic ==
    /\ coordPc' = "panicked"
    /\ mainPc' = "panicked"
    /\ UNCHANGED <<pendingBlend, coordTimer, cause, seqLog>>

\* One step of save_snapshot: from pc `at` to `to`, recording `what`.
SaveSnapshotStep(to, what) ==
    /\ coordPc' = to
    /\ seqLog' = Append(seqLog, what)
    /\ UNCHANGED <<pendingBlend, cause, mainPc>>

Coordinating(at) == ProcessAlive /\ mainPc = "coordinate" /\ coordPc = at

\* select!: msg = ui_event_receiver.recv()
CoordinateUiEvent ==
    /\ Coordinating("select")
    /\ BroadcastReady(ui_event)
    /\ LET msg == Head(ui_event) IN
       /\ ui_event' = Tail(ui_event)
       /\ CASE msg.ev = "KeyPressed" /\ msg.key = KEY_ENTER ->
                   SaveSnapshotCall("enter") /\ UNCHANGED trigger_event
            [] msg.ev = "KeyPressed" /\ msg.key = KEY_ESCAPE ->
                   CoordinateEventsReturn
            [] msg.ev = "WindowClosed" -> CoordinateEventsReturn
            [] OTHER -> UNCHANGED <<coordVars, mainPc, trigger_event>>
    /\ UNCHANGED <<trigger_control, ui_control, capture_control,
                   snapshot_reply>>
    /\ NotCoordinator
    /\ UNCHANGED repoVars

\* select!: msg = trigger_event_receiver.recv()
CoordinateTriggerEvent ==
    /\ Coordinating("select")
    /\ BroadcastReady(trigger_event)
    /\ LET msg == Head(trigger_event) IN
       /\ trigger_event' = Tail(trigger_event)
       /\ IF msg.ev = "Trigger"
          THEN SaveSnapshotCall(msg.from)
          ELSE /\ coordPc' = "blendCountdown"
               /\ pendingBlend' = CountdownBlendImagesGet(msg.n - 1)
               /\ UNCHANGED <<coordTimer, cause, seqLog, mainPc>>
    /\ UNCHANGED <<trigger_control, ui_event, ui_control, capture_control,
                   snapshot_reply>>
    /\ NotCoordinator
    /\ UNCHANGED repoVars

\* ui_control_sender.send(Blend(countdown_blend_images.get(n-1).cloned())).await.ok()
CoordinateBlendCountdown ==
    /\ Coordinating("blendCountdown")
    /\ MpscSendReady(ui_control, UiRunning)
    /\ ui_control' = MpscSend(ui_control, UiRunning, Blend(pendingBlend))
    /\ coordPc' = "select"
    /\ pendingBlend' = None
    /\ UNCHANGED <<coordTimer, cause, seqLog, mainPc, trigger_control,
                   trigger_event, ui_event, capture_control, snapshot_reply>>
    /\ NotCoordinator
    /\ UNCHANGED repoVars

\* Faulty variant of SaveSnapshotStop: the sequence goes on without sending
\* the Stop (C24 must reject it).
SaveSnapshotStopNotSent ==
    /\ Coordinating("sendStop")
    /\ SaveSnapshotStep("sendSnapshot", "Stop")
    /\ UNCHANGED <<coordTimer, trigger_event, ui_event, ui_control,
                   capture_control, snapshot_reply, trigger_control>>
    /\ NotCoordinator
    /\ UNCHANGED repoVars

\* trigger_control_sender.send(ControlMsg::Stop).await
SaveSnapshotStop ==
    /\ Coordinating("sendStop")
    /\ MpscSendReady(trigger_control, MachineRunning)
    /\ trigger_control' = MpscSend(trigger_control, MachineRunning, "Stop")
    /\ SaveSnapshotStep("sendSnapshot", "Stop")
    /\ UNCHANGED <<coordTimer, trigger_event, ui_event, ui_control,
                   capture_control, snapshot_reply>>
    /\ NotCoordinator
    /\ UNCHANGED repoVars

\* capture_control_sender.send(Command::Snapshot(s)).await.ok(): a failed send
\* drops s with the returned error.
SaveSnapshotRequest ==
    /\ Coordinating("sendSnapshot")
    /\ MpscSendReady(capture_control, CaptureRunning)
    /\ capture_control' = MpscSend(capture_control, CaptureRunning, "Snapshot")
    /\ snapshot_reply' = IF CaptureRunning THEN "pending" ELSE "dropped"
    /\ SaveSnapshotStep("awaitSnapshot", "Snapshot")
    /\ UNCHANGED <<coordTimer, trigger_control, trigger_event, ui_event,
                   ui_control>>
    /\ NotCoordinator
    /\ UNCHANGED repoVars

\* let snapshot = r.await.unwrap()
SaveSnapshotAwait ==
    /\ Coordinating("awaitSnapshot")
    /\ snapshot_reply \in {"sent", "dropped"}
    /\ IF snapshot_reply = "sent"
       THEN SaveSnapshotStep("sendBlend", "Frame")
       ELSE MainPanic
    /\ snapshot_reply' = "none"
    /\ UNCHANGED <<coordTimer, trigger_control, trigger_event, ui_event,
                   ui_control, capture_control>>
    /\ NotCoordinator
    /\ UNCHANGED repoVars

\* A send on display_control_sender, from pc `at` on to `to`.
SaveSnapshotDisplay(at, to, msg, what) ==
    /\ Coordinating(at)
    /\ MpscSendReady(ui_control, UiRunning)
    /\ ui_control' = MpscSend(ui_control, UiRunning, msg)
    /\ SaveSnapshotStep(to, what)
    /\ UNCHANGED <<coordTimer, trigger_control, trigger_event, ui_event,
                   capture_control, snapshot_reply>>
    /\ NotCoordinator
    /\ UNCHANGED repoVars

\* Faulty variant of SaveSnapshotBlend: Freeze is sent where the Blend belongs
\* (C2 must reject it).
SaveSnapshotBlendSendsFreeze ==
    SaveSnapshotDisplay("sendBlend", "sendFreeze", Freeze, "Freeze")

\* display_control_sender.send(Blend(snapshot_blend_image)).await.ok()
SaveSnapshotBlend ==
    SaveSnapshotDisplay("sendBlend", "sendFreeze", Blend(snapshot_blend_image),
                        "Blend")

\* display_control_sender.send(Freeze).await.ok()
SaveSnapshotFreeze ==
    SaveSnapshotDisplay("sendFreeze", "save", Freeze, "Freeze")

\* repo.save_frame(&snapshot).expect(..), then sleep(freeze_duration) is armed.
SaveSnapshotSave ==
    /\ Coordinating("save")
    /\ repo.counter < MaxSaves
    /\ \E now \in 0..RepoMaxNow, io \in IoOutcomes :
          /\ SaveFrameCall(now, io)
          /\ IF saved'.status = "ok"
             THEN /\ SaveSnapshotStep("sleep", "Save")
                  /\ coordTimer' = Some(freeze)
             ELSE /\ MainPanic
    /\ UNCHANGED <<trigger_control, trigger_event, ui_event, ui_control,
                   capture_control, snapshot_reply>>
    /\ NotCoordinator

\* sleep(freeze_duration).await returns
SaveSnapshotSleep ==
    /\ Coordinating("sleep")
    /\ coordTimer = Some(0)
    /\ coordTimer' = None
    /\ SaveSnapshotStep("sendBlendNone", "Sleep")
    /\ UNCHANGED <<trigger_control, trigger_event, ui_event, ui_control,
                   capture_control, snapshot_reply>>
    /\ NotCoordinator
    /\ UNCHANGED repoVars

\* display_control_sender.send(Blend(None)).await.ok()
SaveSnapshotBlendNone ==
    SaveSnapshotDisplay("sendBlendNone", "sendLive", Blend(None), "BlendNone")

\* display_control_sender.send(Live).await.ok()
SaveSnapshotLive ==
    SaveSnapshotDisplay("sendLive", "sendRun", Live, "Live")

\* trigger_control_sender.send(ControlMsg::Run).await; save_snapshot returns
SaveSnapshotRun ==
    /\ Coordinating("sendRun")
    /\ MpscSendReady(trigger_control, MachineRunning)
    /\ trigger_control' = MpscSend(trigger_control, MachineRunning, "Run")
    /\ coordPc' = "select"
    /\ cause' = "none"
    /\ seqLog' = <<>>
    /\ UNCHANGED <<pendingBlend, mainPc>>
    /\ UNCHANGED <<coordTimer, trigger_event, ui_event, ui_control,
                   capture_control, snapshot_reply>>
    /\ NotCoordinator
    /\ UNCHANGED repoVars

Coordinator ==
    \/ CoordinateUiEvent \/ CoordinateTriggerEvent
    \/ CoordinateBlendCountdown
    \/ SaveSnapshotStop \/ SaveSnapshotRequest \/ SaveSnapshotAwait
    \/ SaveSnapshotBlend \/ SaveSnapshotFreeze \/ SaveSnapshotSave
    \/ SaveSnapshotSleep \/ SaveSnapshotBlendNone \/ SaveSnapshotLive
    \/ SaveSnapshotRun

\* ------------------------------------------------------------ main's tail
\* (main.rs, after coordinate_events)

OnlyMain ==
    UNCHANGED <<alphaVars, repoVars, cfgVars, smVars, coordVars, capVars, uiVars,
                   trigger_control,
                trigger_event, ui_event, webState>>

\* exit_sender.send(true)?: the web task's receiver is alive, the send succeeds
MainSendExit ==
    /\ mainPc = "sendExit"
    /\ exit_sent' = TRUE
    /\ mainPc' = "joinRest"
    /\ OnlyMain

\* rest_service_thread.await??
MainJoinRest ==
    /\ mainPc = "joinRest"
    /\ webState = "exited"
    /\ mainPc' = "joinTrigger"
    /\ UNCHANGED exit_sent
    /\ OnlyMain

\* trigger_thread.await??: the machine's Err is main's Err
MainJoinTrigger ==
    /\ mainPc = "joinTrigger"
    /\ ~MachineRunning
    /\ mainPc' = IF smState = "ExitOk" THEN "joinCapture" ELSE "exitedErr"
    /\ UNCHANGED exit_sent
    /\ OnlyMain

\* capture_thread.join().expect(..): the thread never panics, join() is Ok
MainJoinCapture ==
    /\ mainPc = "joinCapture"
    /\ ~CaptureRunning
    /\ mainPc' = "joinUi"
    /\ UNCHANGED exit_sent
    /\ OnlyMain

\* ui_thread.join().expect(..): a panicked display thread panics main
MainJoinUi ==
    /\ mainPc = "joinUi"
    /\ ~UiRunning
    /\ mainPc' = IF uiState = "exited" THEN "exitedOk" ELSE "panicked"
    /\ UNCHANGED exit_sent
    /\ OnlyMain

Main ==
    \/ MainSendExit \/ MainJoinRest \/ MainJoinTrigger \/ MainJoinCapture
    \/ MainJoinUi

\* ------------------------------------------------------------ remote trigger
\* (web.rs)

\* GET /trigger: sender.send(Trigger).unwrap(); without a receiver the handler
\* panics and nothing is published.
WebTrigger ==
    /\ ProcessAlive
    /\ webState = "serving"
    /\ trigger_event' = IF CoordinatorSubscribed
                        THEN BroadcastSend(trigger_event, EvTrigger("web"))
                        ELSE trigger_event
    /\ UNCHANGED <<alphaVars, repoVars, cfgVars, smVars, coordVars, capVars, uiVars,
                   trigger_control,
                   ui_event, exit_sent, mainPc, webState>>

\* select!: _ = exit_receiver.recv()
WebExit ==
    /\ ProcessAlive
    /\ webState = "serving"
    /\ ExitReady
    /\ webState' = "exited"
    /\ UNCHANGED <<alphaVars, repoVars, cfgVars, smVars, coordVars, capVars, uiVars,
                   trigger_control,
                   trigger_event, ui_event, exit_sent, mainPc>>

\* ------------------------------------------------------------ capture thread
\* (capture_thread.rs: one iteration of frame_grabber's loop; the frames
\* themselves are not modelled)

\* The thread ends: command_receiver drops, and with it a Snapshot still queued,
\* whose oneshot sender drops unanswered.
CaptureBreak ==
    /\ capState' = "exited"
    /\ capture_control' = <<>>

\* A call on the camera fails: `?` returns the Err out of frame_grabber, which
\* the thread's closure (spawn, `.is_err()`) drops before it ends.
CaptureFail ==
    /\ capState' = "failed"
    /\ capture_control' = <<>>

FrameGrabberLoop ==
    /\ ProcessAlive
    /\ CaptureRunning
    /\ \E frameEmpty \in BOOLEAN, cameraOk \in BOOLEAN :
          IF ~cameraOk
          THEN /\ CaptureFail
               /\ snapshot_reply' = IF capture_control # <<>> THEN "dropped"
                                    ELSE snapshot_reply
          ELSE IF ~frameEmpty /\ ~UiRunning
          THEN \* frame_event_sender.send(..).is_err(): all receivers have left
               /\ CaptureBreak
               /\ snapshot_reply' = IF capture_control # <<>> THEN "dropped"
                                    ELSE snapshot_reply
          ELSE /\ snapshot_reply' = IF capture_control # <<>> THEN "sent"
                                    ELSE snapshot_reply
               /\ IF exit_sent
                  THEN CaptureBreak
                  ELSE /\ capture_control' = <<>>
                       /\ UNCHANGED capState
    /\ UNCHANGED <<alphaVars, repoVars, cfgVars, smVars, coordVars, uiVars,
                   trigger_control,
                   trigger_event, ui_event, exit_sent, mainPc, webState>>

\* ------------------------------------------------------------ display thread
\* (ui_thread.rs: one iteration of ui_event_loop's loop; highgui's calls succeed)

\* The thread ends: control_receiver and frame_receiver drop, and its locals
\* are gone (they go back to their initial values).
UiBreak(how) ==
    /\ uiState' = how
    /\ ui_control' = <<>>
    /\ video_state' = "Live"
    /\ blending_image' = None

\* Faulty variant of UiControl: a Live is taken off the channel and not acted
\* on (C25 must reject it).
UiControlDropsLive ==
    /\ ui_control' = IF ui_control # <<>> THEN Tail(ui_control) ELSE ui_control
    /\ blending_image' =
          IF ui_control # <<>> /\ Head(ui_control).cmd = "Blend"
          THEN Head(ui_control).img ELSE blending_image
    /\ video_state' =
          IF ui_control # <<>> /\ Head(ui_control).cmd = "Freeze" THEN "Frozen"
          ELSE video_state
    /\ UNCHANGED uiState

\* if let Ok(msg) = control_receiver.try_recv() { match msg { .. } }
UiControl ==
    /\ ui_control' = IF ui_control # <<>> THEN Tail(ui_control) ELSE ui_control
    /\ blending_image' =
          IF ui_control # <<>> /\ Head(ui_control).cmd = "Blend"
          THEN Head(ui_control).img ELSE blending_image
    /\ video_state' =
          IF ui_control # <<>> /\ Head(ui_control).cmd = "Freeze" THEN "Frozen"
          ELSE IF ui_control # <<>> /\ Head(ui_control).cmd = "Live" THEN "Live"
          ELSE video_state
    /\ UNCHANGED uiState

UiEventLoop ==
    /\ ProcessAlive
    /\ UiRunning
    /\ \E key \in Keys, visible \in BOOLEAN :
          LET keyed == IF key > 0 THEN BroadcastSend(ui_event, KeyPressed(key))
                       ELSE ui_event
          IN  IF exit_sent
              THEN UiBreak("exited") /\ UNCHANGED ui_event
              ELSE IF (key > 0 \/ ~visible) /\ ~CoordinatorSubscribed
              THEN \* event_sender.send(..)? fails: .expect("ui thread failed")
                   UiBreak("failed") /\ UNCHANGED ui_event
              ELSE IF ~visible
              THEN /\ ui_event' = BroadcastSend(keyed, WindowClosed)
                   /\ UiBreak("exited")
              ELSE /\ ui_event' = keyed
                   /\ UiControl
    /\ UNCHANGED <<alphaVars, repoVars, cfgVars, smVars, coordVars, capVars,
                   trigger_control,
                   trigger_event, exit_sent, mainPc, webState>>

\* ------------------------------------------------------------ time
TimerDue(t) == t = Some(0)
TimerTick(t) == IF t = None THEN None ELSE Some(t[1] - 1)

\* One tick passes; a due sleep() is woken before the next one.
Tick ==
    /\ ProcessAlive
    /\ ~TimerDue(smTimer)
    /\ ~TimerDue(coordTimer)
    /\ smTimer' = TimerTick(smTimer)
    /\ coordTimer' = TimerTick(coordTimer)
    /\ clock' = IF clock # None /\ smState \in {"Waiting", "Countdown"}
                THEN Some(clock[1] + 1) ELSE clock
    /\ UNCHANGED <<alphaVars, repoVars, cfgVars, smState, count, cycle, stamps, coordPc,
                   pendingBlend,
                   cause, seqLog, capVars, uiVars, trigger_control,
                   trigger_event, ui_event, exit_sent, mainPc, webState>>

\* ------------------------------------------------------------ specification
Next ==
    \/ AutoTriggerStart
    \/ WaitingExit \/ WaitingControl \/ WaitingTimeout
    \/ CountdownExit \/ CountdownControl \/ CountdownTimeout
    \/ StoppedExit \/ StoppedControl
    \/ CoordinateUiEvent \/ CoordinateTriggerEvent
    \/ CoordinateBlendCountdown
    \/ SaveSnapshotStop \/ SaveSnapshotRequest \/ SaveSnapshotAwait
    \/ SaveSnapshotBlend \/ SaveSnapshotFreeze \/ SaveSnapshotSave
    \/ SaveSnapshotSleep \/ SaveSnapshotBlendNone \/ SaveSnapshotLive
    \/ SaveSnapshotRun
    \/ MainSendExit \/ MainJoinRest \/ MainJoinTrigger \/ MainJoinCapture
    \/ MainJoinUi
    \/ WebTrigger \/ WebExit
    \/ FrameGrabberLoop
    \/ UiEventLoop
    \/ Tick

Spec == Init /\ [][Next]_vars

\* The machine on its own, with the stopwatch armed: no command arrives, the
\* coordinator never reads.
InitMachine ==
    /\ params \in [timeout : {None} \cup
                                {Some(d) : d \in Durations(MachineMaxTimeout)},
                   timeout_between : Durations(MachineMaxBetween)]
    /\ countdown \in 1..MachineMaxDepth
    /\ snapshot_blend_image = None
    /\ freeze = DefaultFreeze
    /\ clock = Some(0)
    /\ repo = [counter |-> 0, path |-> "nested",
               name |-> [time |-> FALSE, counter |-> TRUE]]
    /\ disk = [files |-> {}, dirs |-> "all"]
    /\ AlphaIdle
    /\ Started

NextMachine ==
    \/ AutoTriggerStart
    \/ WaitingTimeout
    \/ CountdownTimeout
    \/ Tick

SpecMachine == InitMachine /\ [][NextMachine]_vars

\* The repository on its own: any template and path, a directory that may hold
\* files of earlier runs, and save_frame called again and again.
RepoNames(name) ==
    [time : IF name.time THEN {None} \cup {Some(t) : t \in 0..RepoMaxNow}
            ELSE {None},
     counter : IF name.counter THEN {Some(c) : c \in 0..(RepoMaxCounter - 1)}
               ELSE {None}]

InitRepo ==
    /\ params = [timeout |-> None, timeout_between |-> DefaultTimeoutBetween]
    /\ countdown = 1
    /\ snapshot_blend_image = None
    /\ freeze = DefaultFreeze
    /\ clock = None
    /\ repo \in [counter : {0}, path : Paths, name : Templates]
    /\ disk \in [files : SUBSET RepoNames(repo.name), dirs : Dirs]
    /\ disk.dirs # "all" => disk.files = {}
    /\ repo.path = "bare" => disk.dirs # "none"
    /\ repo.path = "root" => disk.dirs = "all"
    /\ AlphaIdle
    /\ Started

RepoSaveFrame ==
    /\ repo.counter < RepoMaxCounter
    /\ saved.status \in {"none", "ok"}
    /\ \E now \in 0..RepoMaxNow, io \in IoOutcomes : SaveFrameCall(now, io)
    /\ UNCHANGED <<alphaVars, cfgVars, smVars, coordVars, capVars, uiVars,
                   trigger_control, trigger_event, ui_event, exit_sent, mainPc,
                   webState>>

NextRepo == RepoSaveFrame

SpecRepo == InitRepo /\ [][NextRepo]_vars

\* The alpha image on its own: any overlay file and frame, the image made,
\* resized and blended.
InitAlpha ==
    /\ params = [timeout |-> None, timeout_between |-> DefaultTimeoutBetween]
    /\ countdown = 1
    /\ snapshot_blend_image = None
    /\ freeze = DefaultFreeze
    /\ clock = None
    /\ repo = [counter |-> 0, path |-> "nested",
               name |-> [time |-> FALSE, counter |-> TRUE]]
    /\ disk = [files |-> {}, dirs |-> "all"]
    /\ \E depth \in Depths :
          rgba \in [depth : {depth}, size : {sz \in Sizes : ~SizeEmpty(sz)},
                    rgb : ColourSamples, a : AlphaSamples(depth)]
    /\ alpha_image = None
    /\ frame_f \in [size : {sz \in Sizes : ~SizeEmpty(sz)}, v : ColourSamples]
    /\ tmp_2_f = None
    /\ Started

NextAlpha == AlphaImageNew \/ AlphaImageResize \/ UiBlendFrame

SpecAlpha == InitAlpha /\ [][NextAlpha]_vars

\* The machine and whoever holds the Sender that auto_trigger::spawn returned:
\* any command at any time, the Sender dropped at any time, the exit broadcast
\* at any time. The coordinator stays subscribed and never reads.
InitCommands ==
    /\ params \in [timeout : {Some(d) : d \in Durations(CommandsMaxTimeout)},
                   timeout_between : Durations(CommandsMaxBetween)]
    /\ countdown \in 1..CommandsMaxDepth
    /\ snapshot_blend_image = None
    /\ freeze = DefaultFreeze
    /\ clock = None
    /\ repo = [counter |-> 0, path |-> "nested",
               name |-> [time |-> FALSE, counter |-> TRUE]]
    /\ disk = [files |-> {}, dirs |-> "all"]
    /\ AlphaIdle
    /\ Started

NotCommandsClient ==
    UNCHANGED <<alphaVars, repoVars, cfgVars, smVars, coordVars, capVars,
                uiVars, trigger_event, ui_event, mainPc, webState>>

\* control_sender.send(msg).await, by any holder of the Sender
CommandSend ==
    /\ MachineRunning
    /\ ~MpscClosed(trigger_control)
    /\ MpscSendReady(trigger_control, TRUE)
    /\ \E msg \in {"Stop", "Run"} :
          trigger_control' = MpscSend(trigger_control, TRUE, msg)
    /\ UNCHANGED exit_sent
    /\ NotCommandsClient

\* drop(control_sender)
CommandClose ==
    /\ MachineRunning
    /\ ~MpscClosed(trigger_control)
    /\ trigger_control' = Append(trigger_control, Closed)
    /\ UNCHANGED exit_sent
    /\ NotCommandsClient

\* exit_sender.send(true)
ExitSend ==
    /\ ~exit_sent
    /\ exit_sent' = TRUE
    /\ UNCHANGED trigger_control
    /\ NotCommandsClient

NextCommands ==
    \/ AutoTriggerStart
    \/ WaitingExit \/ WaitingControl \/ WaitingTimeout
    \/ CountdownExit \/ CountdownControl \/ CountdownTimeout
    \/ StoppedExit \/ StoppedControl
    \/ CommandSend \/ CommandClose \/ ExitSend
    \/ Tick

SpecCommands == InitCommands /\ [][NextCommands]_vars

\* The branches of the machine's select! loops that end it, and those its
\* timers drive.
MachineExit == WaitingExit \/ CountdownExit \/ StoppedExit
MachineTimeout == WaitingTimeout \/ CountdownTimeout

\* Time passes and the machine's task is polled; select! polls its branches in
\* random order, so a branch that is ready again and again is taken in the end.
SpecCommandsFair ==
    /\ SpecCommands
    /\ WF_vars(Tick)
    /\ WF_vars(Machine)
    /\ SF_vars(MachineExit)
    /\ SF_vars(MachineTimeout)

\* The machine's task starts, and the command branch of its select! loops.
MachineControl ==
    AutoTriggerStart \/ WaitingControl \/ CountdownControl \/ StoppedControl

\* The system with the auto trigger on, one countdown overlay, a mugshot
\* overlay and --freeze of one tick.
InitSequence ==
    /\ params = [timeout |-> Some(MaxTimeout),
                 timeout_between |-> DefaultTimeoutBetween]
    /\ countdown = 1
    /\ snapshot_blend_image = Some(SnapshotOverlay)
    /\ freeze = MaxTimeout
    /\ clock = None
    /\ repo = [counter |-> 0, path |-> "nested",
               name |-> [time |-> FALSE, counter |-> TRUE]]
    /\ disk = [files |-> {}, dirs |-> "all"]
    /\ AlphaIdle
    /\ Started

\* The machine, the coordinator up to the exit broadcast, the capture and the
\* display thread; snapshots are triggered by the machine and the ENTER key.
NextSequence ==
    \/ Machine
    \/ Coordinator
    \/ MainSendExit
    \/ FrameGrabberLoop
    \/ UiEventLoop
    \/ Tick

\* An iteration of the capture thread's loop in which no camera call fails,
\* and one of the display thread's loop without a key pressed or the window
\* closed.
FrameGrabberGoesRound == FrameGrabberLoop /\ capState' # "failed"
UiGoesRound == UiEventLoop /\ ui_event' = ui_event /\ uiState' # "failed"

\* Fair scheduling of that system: time passes, main's task is polled, the
\* machine's task starts and a command that stays queued is taken by its
\* select! in the end, and the loops of the capture and the display thread
\* keep going round.
SpecSequenceFair ==
    /\ InitSequence /\ [][NextSequence]_vars
    /\ WF_vars(Tick)
    /\ WF_vars(Coordinator)
    /\ WF_vars(MachineControl)
    /\ WF_vars(FrameGrabberGoesRound)
    /\ WF_vars(UiGoesRound)

\* tokio polls a task that can run: the machine's task is scheduled fairly.
SpecFair == Spec /\ WF_vars(Machine)

\* ------------------------------------------------------------ claims
IsPrefix(s, t) == Len(s) <= Len(t) /\ \A i \in 1..Len(s) : s[i] = t[i]

\* Countdown(k), Countdown(k-1), .., Countdown(n)
CountdownsDownTo(k, n) == [i \in 1..(k - n + 1) |-> EvCountdown(k - i + 1)]

FullCycle(k) == Append(CountdownsDownTo(k, 1), EvTrigger("sm"))

\* The machine publishes an event in this step.
MachineEmits == Len(cycle') > Len(cycle) \/ (cycle' # cycle /\ cycle' # <<>>)

\* The machine's select! takes command c off its channel in this step.
MachineConsumes(c) ==
    /\ trigger_control # <<>>
    /\ Head(trigger_control) = c
    /\ trigger_control' = Tail(trigger_control)
    /\ MachineRunning'

\* C1: for every countdown depth k >= 1, a cycle of the machine that no Stop and
\* no shutdown interrupts emits Countdown(k), .., Countdown(1) in this order,
\* each once, then one Trigger, and the machine is back in Waiting: in
\* Countdown(n) the cycle has emitted exactly Countdown(k)..Countdown(n), a
\* machine in Waiting has emitted nothing yet or the whole cycle, and a stopped
\* or ended machine a prefix of it.
C1_CycleEmitsCountdownThenTrigger ==
    /\ countdown >= 1
    /\ smState = "Countdown" =>
          /\ count \in 1..countdown
          /\ cycle = CountdownsDownTo(countdown, count)
    /\ smState = "Waiting" => cycle \in {<<>>, FullCycle(countdown)}
    /\ smState \in {"Stopped", "ExitOk", "ExitErr"} =>
          IsPrefix(cycle, FullCycle(countdown))

C1_Witness ==
    /\ countdown = MaxDepth
    /\ smState = "Waiting"
    /\ cycle = FullCycle(countdown)

\* The steps of save_snapshot, in the order of its source.
SnapshotSequence ==
    <<"Stop", "Snapshot", "Frame", "Blend", "Freeze", "Save", "Sleep",
      "BlendNone", "Live", "Run">>

\* Where save_snapshot stands once it has done the first n steps.
PcAfter(n) ==
    <<"sendStop", "sendSnapshot", "awaitSnapshot", "sendBlend", "sendFreeze",
      "save", "sleep", "sendBlendNone", "sendLive", "sendRun">>[n + 1]

InSequence == \E n \in 0..9 : coordPc = PcAfter(n)
StepsDone == CHOOSE n \in 0..9 : coordPc = PcAfter(n)

\* C2: a snapshot sequence does Stop, snapshot request, response, Blend(overlay),
\* Freeze, save, sleep, Blend(None), Live, Run in this order, each completed
\* before the next starts: what has been done is a prefix of that order, and
\* while the sequence runs the steps done have had their effect (the command is
\* queued, or its consumer has acted on it; the response has been taken; the
\* sleep is pending only between save and Blend(None)).
C2_SequenceInOrder ==
    /\ IsPrefix(seqLog, SnapshotSequence)
    /\ InSequence =>
          LET done == Len(seqLog) IN
          /\ (done >= 1 /\ MachineRunning) =>
                (trigger_control = <<"Stop">> \/ smState = "Stopped")
          /\ done = 2 => snapshot_reply # "none"
          /\ done >= 3 => (snapshot_reply = "none" /\ capture_control = <<>>)
          /\ (done = 4 /\ UiRunning) =>
                (ui_control = <<Blend(snapshot_blend_image)>>
                    \/ blending_image = snapshot_blend_image)
          /\ (done \in 5..7 /\ UiRunning) =>
                (ui_control = <<Freeze>>
                    \/ (video_state = "Frozen"
                          /\ blending_image = snapshot_blend_image))
          /\ done = 6 <=> coordTimer # None
          /\ (done = 8 /\ UiRunning) =>
                (ui_control = <<Blend(None)>> \/ blending_image = None)
          /\ (done = 9 /\ UiRunning) =>
                (ui_control = <<Live>>
                    \/ (video_state = "Live" /\ blending_image = None))

C2_Witness ==
    /\ coordPc = "sendRun"
    /\ seqLog = SubSeq(SnapshotSequence, 1, 9)
    /\ smState = "Stopped"
    /\ UiRunning
    /\ video_state = "Live"

\* C3: a Stop the machine consumes in Waiting or Countdown(n) takes it to
\* Stopped, and from there until it consumes the next Run it emits nothing, so
\* no Trigger: it leaves Stopped only by consuming Run or on the exit broadcast.
C3_StopSuppressesTrigger ==
    [][ /\ (smState \in {"Waiting", "Countdown"} /\ MachineConsumes("Stop"))
            => smState' = "Stopped"
        /\ smState = "Stopped" =>
            /\ ~MachineEmits
            /\ trigger_event' # trigger_event =>
                  (trigger_event' = <<>> \/ Head(trigger_event').from = "web")
            /\ \/ smState' = "Stopped"
               \/ smState' = "ExitOk" /\ exit_sent
               \/ smState' = "Waiting" /\ MachineConsumes("Run")
      ]_vars

C3_Witness ==
    /\ smState = "Stopped"
    /\ cycle # <<>>
    /\ trigger_control = <<>>

\* C4 (as claimed): once the coordinator's send of Stop has completed, the
\* machine emits no Countdown and no Trigger until the coordinator sends Run.
C4_NoEmissionOnceStopIsSent ==
    [][ (InSequence /\ StepsDone >= 1) => ~MachineEmits ]_vars

\* C5: ENTER, the machine's Trigger and the remote endpoint's Trigger start the
\* same sequence: whatever started it, at every point of save_snapshot the side
\* effects so far are the same first steps of the one order, and outside a
\* sequence nothing is attributed to a cause.
C5_SameSequenceForEveryCause ==
    /\ InSequence =>
          /\ cause \in {"enter", "sm", "web"}
          /\ \A c \in {"enter", "sm", "web"} :
                cause = c => seqLog = SubSeq(SnapshotSequence, 1, StepsDone)
    /\ coordPc \in {"select", "blendCountdown"} =>
          (cause = "none" /\ seqLog = <<>>)

C5_Witness ==
    /\ cause = "enter"
    /\ coordPc = "sendRun"
    /\ seqLog = SubSeq(SnapshotSequence, 1, 9)
    /\ trigger_event = <<EvTrigger("web")>>

\* C6 (as claimed): with a snapshot overlay configured, whenever the display is
\* in Frozen mode its blending image is the snapshot overlay.
C6_FrozenFrameIsBlended ==
    (UiRunning /\ snapshot_blend_image # None /\ video_state = "Frozen")
        => blending_image = snapshot_blend_image

\* The i-th emission of the first cycle and its time, for timeout T, step S and
\* depth k.
ExpectedStamp(i) ==
    LET T == params.timeout[1]
        S == params.timeout_between
        k == countdown
    IN  IF i <= k THEN <<EvCountdown(k - i + 1), T + (i - 1) * S>>
        ELSE <<EvTrigger("sm"), T + k * S>>

\* C7: with timeout T, step S and depth k and no command arriving, the machine
\* started at time 0 emits Countdown(k - i) at T + i*S for i = 0..k-1 and
\* Trigger at T + k*S, and no emission is late: while the stopwatch runs, the
\* next one is due by then.
C7_EmissionTimes ==
    params.timeout # None =>
        /\ Len(stamps) <= countdown + 1
        /\ \A i \in 1..Len(stamps) : stamps[i] = ExpectedStamp(i)
        /\ clock # None =>
              clock[1] <= params.timeout[1] + Len(stamps) * params.timeout_between

C7_Witness ==
    /\ params = [timeout |-> Some(2), timeout_between |-> 1]
    /\ countdown = 3
    /\ stamps = << <<EvCountdown(3), 2>>, <<EvCountdown(2), 3>>,
                   <<EvCountdown(1), 4>>, <<EvTrigger("sm"), 5>> >>

\* C8: with no timeout configured the machine ends at once, having emitted
\* nothing and armed no timer, and a snapshot sequence started by ENTER or by
\* the remote endpoint is not held up by it: its sends of Stop and Run complete
\* at once although nobody consumes them.
C8_DisabledMachineExitsAtOnce ==
    params.timeout = None =>
        /\ smState \in {"Spawned", "ExitOk"}
        /\ smTimer = None
        /\ cycle = <<>>
        /\ trigger_event # <<>> => Head(trigger_event).from = "web"
        /\ cause # "sm"
        /\ (smState = "ExitOk" /\ Coordinating("sendStop"))
              => ENABLED SaveSnapshotStop
        /\ (smState = "ExitOk" /\ Coordinating("sendRun"))
              => ENABLED SaveSnapshotRun
        /\ smState = "ExitOk" => trigger_control = <<>>

C8_Witness ==
    /\ params.timeout = None
    /\ smState = "ExitOk"
    /\ coordPc = "sendRun"
    /\ cause = "web"
    /\ seqLog = SubSeq(SnapshotSequence, 1, 9)

\* C9: once the exit signal is broadcast the machine's task ends, from whatever
\* state it is in, under fair scheduling of the task.
C9_MachineEndsAfterExit == exit_sent ~> ~MachineRunning

C9_Witness ==
    /\ exit_sent
    /\ smState = "ExitOk"
    /\ params.timeout # None

\* C10: when the machine publishes an event (a timer of Waiting or Countdown
\* expires) while the event channel has no receiver, it ends with an error in
\* that step, and an ended machine makes no transition and emits nothing.
C10_NoSubscriberIsFatal ==
    [][ /\ ((WaitingTimeout \/ CountdownTimeout) /\ ~CoordinatorSubscribed)
            => (smState' = "ExitErr" /\ ~MachineEmits
                  /\ trigger_event' = trigger_event)
        /\ smState = "ExitErr" =>
            (smState' = "ExitErr" /\ ~MachineEmits
                  /\ trigger_event' = trigger_event /\ smTimer' = None)
      ]_vars

C10_Witness ==
    /\ smState = "ExitErr"
    /\ ~CoordinatorSubscribed
    /\ mainPc = "exitedErr"


\* C11: every Countdown(n) the machine publishes has 1 <= n <= countdown; when
\* the coordinator reads one it computes overlay[n-1], an index that is never
\* below 0 (and here always valid), and then sends exactly one Blend carrying
\* that image to the display (or drops it, the display being gone) and is back at
\* its select!.
C11_CountdownBlendsItsOverlay ==
    /\ [](\A i \in 1..Len(trigger_event) :
            trigger_event[i].ev = "Countdown"
                => trigger_event[i].n \in 1..countdown)
    /\ [][ /\ (coordPc = "select" /\ coordPc' = "blendCountdown") =>
                LET n == Head(trigger_event).n IN
                /\ Head(trigger_event).ev = "Countdown"
                /\ n - 1 >= 0
                /\ pendingBlend' =
                      (IF n - 1 < countdown THEN Some(CountdownOverlay(n - 1))
                       ELSE None)
                /\ ui_control' = ui_control
           /\ (coordPc = "blendCountdown" /\ coordPc' # "blendCountdown") =>
                /\ coordPc' = "select"
                /\ ui_control' = IF UiRunning
                                 THEN Append(ui_control, Blend(pendingBlend))
                                 ELSE ui_control
           /\ (coordPc = "blendCountdown" /\ coordPc' = "blendCountdown") =>
                (pendingBlend' = pendingBlend
                    /\ Len(ui_control') <= Len(ui_control))
       ]_vars

C11_Witness ==
    /\ countdown = MaxDepth
    /\ coordPc = "select"
    /\ ui_control = <<Blend(Some(CountdownOverlay(0)))>>
    /\ cycle = CountdownsDownTo(countdown, 1)


\* The file name the template stands for at clock reading now with counter x.
TemplateName(name, now, x) ==
    [time |-> ChronoFormat(name, now), counter |-> ReplaceCounter(name, x)]

\* The smallest counter value from x on whose file does not exist.
RECURSIVE SmallestFree(_, _, _, _)
SmallestFree(name, files, now, x) ==
    IF TemplateName(name, now, x) \notin files THEN x
    ELSE SmallestFree(name, files, now, x + 1)

\* A save_frame call that returned Ok and wrote a file.
SaveWrote == repo' # repo /\ saved'.status = "ok" /\ saved'.file # None

\* C12 (as claimed): for a template with the counter placeholder and counter c,
\* a save that returns Ok and writes a file writes the template's file for the
\* smallest c' >= c whose file does not exist, a file that was not there, adds
\* nothing else, and leaves the counter at c' + 1.
C12_SaveWritesSmallestFreeName ==
    [][ (repo.name.counter /\ SaveWrote) =>
          \E now \in 0..RepoMaxNow :
             LET c1 == SmallestFree(repo.name, disk.files, now, repo.counter)
                 f == TemplateName(repo.name, now, c1)
             IN  /\ saved'.file = Some(f)
                 /\ f \notin disk.files
                 /\ disk'.files = disk.files \cup {f}
                 /\ repo'.counter = c1 + 1
      ]_vars


\* C13 (as claimed): ESCAPE or WindowClosed read by the idle coordinator ends
\* its loop with no snapshot sequence started, the exit broadcast follows, and
\* main ends with success only when every task has ended and none of them with
\* an error or a panic.
C13_ShutdownJoinsAndSurfaces ==
    /\ coordPc = "returned" => (cause = "none" /\ seqLog = <<>>)
    /\ mainPc \in {"joinRest", "joinTrigger", "joinCapture", "joinUi",
                   "exitedOk", "exitedErr"} => exit_sent
    /\ mainPc = "exitedOk" =>
          /\ smState = "ExitOk"
          /\ webState = "exited"
          /\ capState = "exited"
          /\ uiState = "exited"


\* C14 (as claimed): a frame blended with an overlay made from a source whose
\* alpha is the channel's maximum has oneMinusAlpha = 0 and equals the overlay's
\* colour plane whatever the frame; blended with one made from a source whose
\* alpha is 0 (oneMinusAlpha = 1, colour = 0) it equals the frame.
C14_OpaqueAndTransparentBlend ==
    (alpha_image # None /\ tmp_2_f # None) =>
        LET img == alpha_image[1] IN
        /\ rgba.a = ChannelMax(rgba.depth) =>
              /\ img.beta_f.v255 = 0
              /\ tmp_2_f[1].v255 = img.image_f.v255
        /\ rgba.a = 0 =>
              /\ img.beta_f.v255 = AlphaDivisor
              /\ img.image_f.v255 = 0
              /\ tmp_2_f[1].v255 = AlphaDivisor * frame_f.v


\* The dimensions of the two planes of an AlphaImage.
PlaneDims(img) == <<img.image_f.size, img.beta_f.size>>

\* The sizes imgproc::resize accepts as a target.
ResizeTargets == {sz \in Sizes : ~SizeEmpty(sz)}

\* C15: after construction and after every resize both planes of the
\* AlphaImage have the same dimensions, which after a resize are the target's;
\* resizing to the current size gives back the same planes; resizing to S1 and
\* then to S2 gives the dimensions of resizing to S2 directly; and a step that
\* leaves the dimensions alone leaves the planes alone.
C15_ResizeKeepsPlanesTogether ==
    /\ [](alpha_image # None =>
            LET img == alpha_image[1] IN
            /\ img.image_f.size = img.beta_f.size
            /\ Resize(img, img.image_f.size) = img
            /\ \A s1, s2 \in ResizeTargets :
                  /\ PlaneDims(Resize(img, s2)) = <<s2, s2>>
                  /\ PlaneDims(Resize(Resize(img, s1), s2))
                        = PlaneDims(Resize(img, s2)))
    /\ [][(alpha_image # None /\ alpha_image' # None
           /\ PlaneDims(alpha_image'[1]) = PlaneDims(alpha_image[1]))
             => alpha_image' = alpha_image]_vars

\* An AlphaImage that has been resized away from the size of its source.
C15_Witness ==
    /\ alpha_image # None
    /\ alpha_image[1].image_f.size # rgba.size
    /\ alpha_image[1].beta_f.size = alpha_image[1].image_f.size
    /\ uiState = "running"


\* The machine's select! takes a Run off the command channel (and does not
\* end, which drops the receiver with what it held).
ConsumesRun ==
    /\ trigger_control # <<>>
    /\ Head(trigger_control) = "Run"
    /\ trigger_control' = Tail(trigger_control)
    /\ smState' \notin {"ExitOk", "ExitErr"}

\* C16 (as claimed): a step in which the machine, in Waiting or Countdown(n),
\* consumes a Run leaves its state and count as they are, emits nothing, and
\* leaves the pending timer with the ticks it had left.
C16_RunIsAbsorbedTimerUntouched ==
    [][(smState \in {"Waiting", "Countdown"} /\ ConsumesRun) =>
          /\ smState' = smState
          /\ count' = count
          /\ trigger_event' = trigger_event
          /\ cycle' = cycle
          /\ smTimer' = smTimer]_vars


\* The command channel is closed and drained: recv() returns None.
CommandsClosed == trigger_control = <<Closed>>

MachineEnded == smState \in {"ExitOk", "ExitErr"}

\* The machine has just emitted Trigger and waits again.
TriggerEmitted ==
    /\ smState = "Waiting"
    /\ cycle # <<>>
    /\ cycle[Len(cycle)] = EvTrigger("sm")

\* C17 (as claimed): with its command channel closed the machine still goes
\* from Waiting to Countdown and from Countdown on to emitting Trigger, unless
\* it ends first, and it ends once the exit has been broadcast.
C17_ClosedChannelKeepsTimersAndExit ==
    /\ (CommandsClosed /\ smState = "Waiting" /\ ~TriggerEmitted)
          ~> (smState = "Countdown" \/ MachineEnded)
    /\ (CommandsClosed /\ smState = "Countdown")
          ~> (TriggerEmitted \/ MachineEnded)
    /\ (CommandsClosed /\ exit_sent) ~> MachineEnded


\* The machine's select! takes a Stop off the command channel.
ConsumesStop ==
    /\ trigger_control # <<>>
    /\ Head(trigger_control) = "Stop"
    /\ trigger_control' = Tail(trigger_control)
    /\ smState' \notin {"ExitOk", "ExitErr"}

\* C18: while the machine is Stopped it has no timer and no step emits an
\* event, however many ticks pass; a Stop it consumes leaves it Stopped; it
\* leaves Stopped only by consuming a Run, to Waiting with the whole
\* params.timeout to wait, or on the exit broadcast; in Waiting the timer only
\* counts down tick by tick or is armed in full again; and Waiting is left for
\* Countdown only when the timer has run out, with Countdown(countdown) as the
\* event emitted.
C18_StoppedIsQuietAndRunStartsAfresh ==
    /\ [](smState = "Stopped" => (smTimer = None /\ count = 0))
    /\ [][smState = "Stopped" =>
            /\ trigger_event' = trigger_event
            /\ ConsumesStop => smState' = "Stopped"
            /\ smState' # "Stopped" =>
                  \/ /\ ConsumesRun
                     /\ smState' = "Waiting"
                     /\ smTimer' = params.timeout
                     /\ count' = 0
                  \/ /\ exit_sent
                     /\ smState' = "ExitOk"]_vars
    /\ [][smState = "Waiting" =>
            /\ (smState' = "Waiting" /\ smTimer' # smTimer) =>
                  \/ smTimer' = Some(smTimer[1] - 1)
                  \/ smTimer' = params.timeout
            /\ smState' = "Countdown" =>
                  /\ smTimer = Some(0)
                  /\ count' = countdown
                  /\ trigger_event' = <<EvCountdown(countdown)>>]_vars

\* The machine waits again after a Run that followed a Stop in mid countdown:
\* the last event was a Countdown step short of the last one, and the whole
\* timeout is pending.
C18_Witness ==
    /\ smState = "Waiting"
    /\ cycle = <<>>
    /\ trigger_event # <<>>
    /\ Head(trigger_event).ev = "Countdown"
    /\ Head(trigger_event).n > 1
    /\ smTimer = params.timeout


\* C19: the trigger event channel holds at most one event the coordinator has
\* not seen; while a snapshot sequence is in flight no step takes an event out
\* of it (events are only sent into it); a sequence is started only by the idle
\* coordinator, with nothing of it done yet; and the start of a sequence by a
\* Trigger takes that Trigger and leaves the channel empty, so that whatever
\* arrived during the sequence before starts one further sequence at most.
C19_OneSequenceOneBufferedTrigger ==
    /\ [](Len(trigger_event) <= 1)
    /\ [][InSequence =>
            /\ trigger_event # <<>> => trigger_event' # <<>>
            /\ (coordPc' = "sendStop" /\ seqLog' = <<>>) =>
                  (coordPc = "sendStop" /\ seqLog = <<>>)]_vars
    /\ [][(coordPc # "sendStop" /\ coordPc' = "sendStop") =>
            /\ coordPc = "select"
            /\ seqLog' = <<>>
            /\ cause' \in {"sm", "web"} =>
                  /\ trigger_event = <<EvTrigger(cause')>>
                  /\ trigger_event' = <<>>]_vars

\* A Trigger arrived while a snapshot sequence started by another Trigger is
\* in flight: it waits in the channel.
C19_Witness ==
    /\ InSequence
    /\ Len(seqLog) >= 1
    /\ cause \in {"sm", "web"}
    /\ trigger_event # <<>>
    /\ Head(trigger_event).ev = "Trigger"


\* The coordinator is about to send a command on a channel whose receiver has
\* been dropped: Sender::send returns Err.
SendToGoneConsumer ==
    \/ coordPc \in {"sendStop", "sendRun"} /\ ~MachineRunning
    \/ coordPc = "sendSnapshot" /\ ~CaptureRunning
    \/ /\ coordPc \in {"blendCountdown", "sendBlend", "sendFreeze",
                       "sendBlendNone", "sendLive"}
       /\ ~UiRunning

\* C20 (as claimed): when the coordinator sends a command and the consumer of
\* that channel is gone, its next step is to leave its loop.
C20_GoneConsumerStopsCoordinator ==
    [][(SendToGoneConsumer /\ coordPc' # coordPc) => coordPc' = "returned"]_vars


\* The last save_frame call left no file behind: it returned Err or panicked,
\* or imwrite returned Ok(false).
SaveFailed == saved.status # "none" /\ saved.file = None

\* C21 (as claimed): once the save of a snapshot sequence has failed, the
\* sequence does none of its later steps (the freeze sleep, Blend(None), Live,
\* Run), and the step in which the save fails changes nothing about the state
\* machine, the capture thread and the display thread.
C21_FailedSaveIsFatalToSequence ==
    /\ [](SaveFailed =>
            /\ coordPc \notin {"sleep", "sendBlendNone", "sendLive", "sendRun"}
            /\ \A i \in 1..Len(seqLog) :
                  seqLog[i] \notin {"Save", "Sleep", "BlendNone", "Live", "Run"})
    /\ [][(~SaveFailed /\ SaveFailed') =>
            UNCHANGED <<smVars, capVars, uiVars>>]_vars


\* C22 (as claimed): for a template with time specifiers, the counter
\* placeholder or both, whatever the clock reads, get_filename's probing ends,
\* and the name it ends with is the template with that time formatted in and
\* the counter it leaves in place of the placeholder, a name that is not on
\* disk.
C22_ProbingEndsOnFreeTemplateName ==
    (repo.name.time \/ repo.name.counter) =>
    \A now \in 0..RepoMaxNow :
        IF GetFilenameHangs(repo, disk.files, now)
        THEN FALSE
        ELSE LET g == GetFilename(repo, disk.files, now) IN
             /\ g.filename = TemplateName(repo.name, now, g.counter)
             /\ g.filename \notin disk.files


\* A save_frame call that returned Ok.
SaveReturnedOk == repo'.counter # repo.counter /\ saved'.status = "ok"

\* C23 (as claimed): a file has been written only with the repository's
\* directory and its ancestors in place, and a save_frame call that returns Ok
\* leaves that directory existing, having created it where it was absent.
C23_SaveCreatesTargetDirectory ==
    /\ [](saved.file # None => disk.dirs = "all")
    /\ [][SaveReturnedOk => disk'.dirs = "all"]_vars


\* The coordinator puts command c into the machine's command channel.
CoordinatorSends(c) == trigger_control' = Append(trigger_control, c)

\* The coordinator is between snapshot sequences: in its select!, sending a
\* countdown overlay, or about to send the Stop of a sequence.
CoordinatorIdle == coordPc \in {"select", "blendCountdown", "sendStop"}

\* C24: the command channel holds one command at most; the coordinator sends
\* a Stop only when every earlier command has been consumed and the machine is
\* not Stopped, and a Run only when the Stop before it has been consumed and
\* the machine is Stopped; the machine consumes a Stop only in Waiting or
\* Countdown and a Run only in Stopped; and with the coordinator idle and the
\* channel empty the machine is not Stopped.
C24_StopAndRunAlternate ==
    /\ [](/\ Len(trigger_control) <= 1
          /\ trigger_control = <<"Stop">> =>
                smState \in {"Spawned", "Waiting", "Countdown"}
          /\ trigger_control = <<"Run">> => smState = "Stopped"
          /\ (CoordinatorIdle /\ trigger_control = <<>>) =>
                smState # "Stopped")
    /\ [][/\ CoordinatorSends("Stop") =>
                (trigger_control = <<>> /\ smState # "Stopped"
                   /\ coordPc = "sendStop")
          /\ CoordinatorSends("Run") =>
                (trigger_control = <<>> /\ smState = "Stopped"
                   /\ coordPc = "sendRun")
          /\ MachineConsumes("Stop") => smState \in {"Waiting", "Countdown"}
          /\ MachineConsumes("Run") => smState = "Stopped"]_vars

\* The Stop of a second snapshot sequence has been consumed: the machine took
\* Stop, Run, Stop in this order.
C24_Witness ==
    /\ repo.counter = 1
    /\ saved.status = "ok"
    /\ coordPc = "sendSnapshot"
    /\ seqLog = <<"Stop">>
    /\ trigger_control = <<>>
    /\ smState = "Stopped"


\* A snapshot sequence is in flight with the machine, the capture thread and
\* the display thread running (and, before its save, with a save left within
\* MaxSaves).
SequenceRunning ==
    /\ ProcessAlive
    /\ InSequence
    /\ MachineRunning
    /\ CaptureRunning
    /\ UiRunning
    /\ StepsDone <= 5 => repo.counter < MaxSaves

\* The sequence cannot be completed: a panic ended main (the snapshot response
\* was dropped, or the save returned an error).
SequenceAborted == mainPc = "panicked"

\* main has returned or panicked: the process, and every thread with it, is
\* over.
ProcessEnded == ~ProcessAlive

\* C25: under fair scheduling a snapshot sequence in flight with the machine,
\* the capture thread and the display thread running returns to the
\* coordinator's select! unless a panic ends it; once the display is frozen in
\* it, the display gets back to Live with no overlay unless its thread or the
\* process ends; and once the machine is Stopped in it, the machine gets back
\* to Waiting unless it or the process ends.
C25_SequenceCompletes ==
    /\ SequenceRunning ~> (coordPc = "select" \/ SequenceAborted)
    /\ (SequenceRunning /\ video_state = "Frozen")
          ~> \/ UiRunning /\ video_state = "Live" /\ blending_image = None
             \/ ~UiRunning
             \/ ProcessEnded
    /\ (SequenceRunning /\ smState = "Stopped")
          ~> (smState = "Waiting" \/ ~MachineRunning \/ ProcessEnded)

\* A snapshot sequence with an overlay has completed: the still is saved, the
\* display is live without overlay, the machine waits, every command is
\* consumed.
C25_Witness ==
    /\ coordPc = "select"
    /\ snapshot_blend_image # None
    /\ saved.status = "ok"
    /\ saved.file # None
    /\ UiRunning /\ video_state = "Live" /\ blending_image = None
    /\ ui_control = <<>>
    /\ CaptureRunning
    /\ smState = "Waiting"
    /\ trigger_control = <<>>


\* C26 (as claimed): once the coordinator has left its loop on ESCAPE or
\* WindowClosed, neither the machine's task ends with an error nor the display
\* thread fails, and main does not end with an error or a panic.
C26_OrderlyShutdownSucceeds ==
    coordPc = "returned" =>
        /\ smState # "ExitErr"
        /\ uiState # "failed"
        /\ mainPc \notin {"exitedErr", "panicked"}
====
